---- MODULE Spec2Model ----
(***************************************************************************)
(* Model of kfit_test_omp.cpp: mexFunction queries the OpenMP runtime for  *)
(* its maximum thread count, prints it, opens a parallel region in which   *)
(* every thread prints an identity line and the team shares a loop of six  *)
(* iterations, and prints "Finished" after the region's join.              *)
(*                                                                         *)
(* Standard output is the bag of lines written so far; the order of the    *)
(* lines is the order of the steps of a behaviour.                         *)
(***************************************************************************)
EXTENDS Integers, FiniteSets, Bags, TLC

\* Largest value of the runtime's nthreads-var explored by Spec.
MaxThreads == 3

\* Largest value of nthreads-var explored by FairSpec next to the forced one.
LiveThreads == 2

\* Largest nlhs and nrhs of a call explored by SpecArgs.
MaxArgs == 1

\* How far above the number of iterations the forced thread count goes.
ForcedExtra == 1

\* for (int count = 0; count < 6; count++)
NumIter == 6

\* Value of a variable that holds nothing yet.
Undef == -1

VARIABLES
    args,       \* nlhs, plhs, nrhs, prhs as the host passes them
    icv,        \* the runtime's nthreads-var (what omp_get_max_threads returns)
    dyn,        \* the runtime's dyn-var: TRUE when a team may get fewer threads
    mainpc,     \* position of the invoking thread in mexFunction
    maxth,      \* int maxth
    nthreads,   \* size of the team of the parallel region (0 outside of it)
    pc,         \* position of each thread of the team inside the region
    th_id,      \* int th_id, one per thread
    count,      \* int count, one per thread: the iteration it is executing
    sched,      \* the runtime's schedule of a loop without a schedule clause
    next,       \* the work-share's next unassigned iteration
    owner,      \* the work-share's record: iteration -> thread it was given to
    out         \* lines written to standard output

vars == <<args, icv, dyn, sched, mainpc, maxth, nthreads, pc, th_id, count, next, owner, out>>

Team == 0 .. (nthreads - 1)
Iters == 0 .. (NumIter - 1)

\* printf("Number of threads: %d\n", maxth)
CountLine(n) == [kind |-> "Number of threads", id |-> n, count |-> Undef]
\* printf("Hello World from master thread %d\n", th_id)
IdLine(id) == [kind |-> "Hello World from master thread", id |-> id, count |-> Undef]
\* printf("Hello World from thread %d, %d\n", th_id, count)
WorkLine(id, c) == [kind |-> "Hello World from thread", id |-> id, count |-> c]
\* printf("Finished\n")
FinishedLine == [kind |-> "Finished", id |-> Undef, count |-> Undef]

\* printf: one more line on standard output
printf(o, line) == o (+) SetToBag({line})

\* mutant: omp_get_num_threads() called in place of omp_get_max_threads():
\* the size of the current team, which is 1 outside of a parallel region
omp_get_max_threads_Serial == IF mainpc = "region" THEN nthreads ELSE 1

\* omp_get_max_threads(): the value of nthreads-var
omp_get_max_threads == icv

\* mutant: every thread is told the master's number
omp_get_thread_num_Master(t) == 0

\* mutant: thread numbers counted from 1
omp_get_thread_num_OneBased(t) == t + 1

\* omp_get_thread_num() called by team thread t
omp_get_thread_num(t) == t

\* mutant: a team one thread larger than nthreads-var
TeamSizes_Oversubscribed == IF dyn THEN 1 .. (icv + 1) ELSE {icv + 1}

\* the team sizes the runtime may give to a parallel region
TeamSizes == IF dyn THEN 1 .. icv ELSE {icv}

\* schedule(static) without a chunk size: the iterations are divided into
\* one block per thread, the first NumIter % n threads get one more
\* mutant: the remainder is left out of the start of a block
StaticLo_NoRemainder(t, n) ==
    LET q == NumIter \div n
    IN  q * t

StaticLo(t, n) ==
    LET q == NumIter \div n
        r == NumIter % n
    IN  IF t < r THEN (q + 1) * t ELSE q * t + r

\* mutant: the block of a thread ends one iteration too late
StaticHi_OffByOne(t, n) ==
    LET q == NumIter \div n
        r == NumIter % n
    IN  StaticLo(t, n) + (IF t < r THEN q + 1 ELSE q) + 1

StaticHi(t, n) ==
    LET q == NumIter \div n
        r == NumIter % n
    IN  StaticLo(t, n) + (IF t < r THEN q + 1 ELSE q)

\* mutant: the work-share does not advance
DynamicAdvance_Stuck(n) == n

\* schedule(dynamic): the iteration after the one handed out
DynamicAdvance(n) == n + 1

\* mutant: th_id declared outside of the region, one variable for the team
SetThId_Shared(f, t, v) == [u \in DOMAIN f |-> v]

\* assignment to the private th_id of thread t
SetThId(f, t, v) == [f EXCEPT ![t] = v]

\* assignment to the private loop variable count of thread t
SetCount(f, t, v) == [f EXCEPT ![t] = v]

NoThreads == [t \in {} |-> Undef]

\* mxArray values the host may pass in prhs
Values == {"a", "b"}

\* a call of mexFunction(nlhs, plhs, nrhs, prhs): plhs has nlhs slots the
\* host has not filled, prhs has nrhs values
Calls(max) ==
    UNION {[nlhs : {l}, plhs : [1 .. l -> {"unset"}], nrhs : {r}, prhs : [1 .. r -> Values]] :
               l \in 0 .. max, r \in 0 .. max}

\* the call without arguments and without outputs
NoArgs == [nlhs |-> 0, plhs |-> << >>, nrhs |-> 0, prhs |-> << >>]

InitRest ==
    /\ mainpc = "query"
    /\ maxth = Undef
    /\ nthreads = 0
    /\ pc = NoThreads
    /\ th_id = NoThreads
    /\ count = NoThreads
    /\ next = 0
    /\ owner = [i \in {} |-> Undef]
    /\ out = EmptyBag

Init ==
    /\ args = NoArgs
    /\ icv \in 1 .. MaxThreads
    /\ dyn \in BOOLEAN
    /\ sched \in {"static", "dynamic"}
    /\ InitRest

\* maxth = omp_get_max_threads();
QueryMaxThreads ==
    /\ mainpc = "query"
    /\ maxth' = omp_get_max_threads
    /\ mainpc' = "print"
    /\ UNCHANGED <<args, icv, dyn, sched, nthreads, pc, th_id, count, next, owner, out>>

\* printf("Number of threads: %d\n", maxth);
PrintMaxThreads ==
    /\ mainpc = "print"
    /\ out' = printf(out, CountLine(maxth))
    /\ mainpc' = "fork"
    /\ UNCHANGED <<args, icv, dyn, sched, maxth, nthreads, pc, th_id, count, next, owner>>

\* #pragma omp parallel: the runtime forms a team, the invoking thread is
\* its thread 0, every thread starts the block with its own th_id and count
Fork ==
    /\ mainpc = "fork"
    /\ \E n \in TeamSizes :
        /\ nthreads' = n
        /\ pc' = [t \in 0 .. (n - 1) |-> "getid"]
        /\ th_id' = [t \in 0 .. (n - 1) |-> Undef]
        /\ count' = [t \in 0 .. (n - 1) |-> Undef]
    /\ next' = 0
    /\ mainpc' = "region"
    /\ UNCHANGED <<args, icv, dyn, sched, maxth, owner, out>>

\* int th_id = omp_get_thread_num();
GetId(t) ==
    /\ mainpc = "region"
    /\ pc[t] = "getid"
    /\ th_id' = SetThId(th_id, t, omp_get_thread_num(t))
    /\ pc' = [pc EXCEPT ![t] = "hello"]
    /\ UNCHANGED <<args, icv, dyn, sched, mainpc, maxth, nthreads, count, next, owner, out>>

\* mutant: only the master writes the "master thread" line
Hello_MasterOnly(t) ==
    /\ mainpc = "region"
    /\ pc[t] = "hello"
    /\ out' = IF t = 0 THEN printf(out, IdLine(th_id[t])) ELSE out
    /\ pc' = [pc EXCEPT ![t] = "for"]
    /\ UNCHANGED <<args, icv, dyn, sched, mainpc, maxth, nthreads, th_id, count, next, owner>>

\* printf("Hello World from master thread %d\n", th_id);
Hello(t) ==
    /\ mainpc = "region"
    /\ pc[t] = "hello"
    /\ out' = printf(out, IdLine(th_id[t]))
    /\ pc' = [pc EXCEPT ![t] = "for"]
    /\ UNCHANGED <<args, icv, dyn, sched, mainpc, maxth, nthreads, th_id, count, next, owner>>

\* mutant: a barrier between the identity lines and the loop
ForNext_AfterBarrier(t) ==
    /\ mainpc = "region"
    /\ pc[t] = "for"
    /\ \A u \in Team : pc[u] \notin {"getid", "hello"}
    /\ LET c == IF sched = "dynamic" THEN next
                ELSE IF count[t] = Undef THEN StaticLo(t, nthreads)
                ELSE count[t] + 1
           hi == IF sched = "dynamic" THEN NumIter ELSE StaticHi(t, nthreads)
       IN  IF c < hi
           THEN /\ count' = SetCount(count, t, c)
                /\ owner' = (c :> t) @@ owner
                /\ next' = IF sched = "dynamic" THEN DynamicAdvance(next) ELSE next
                /\ pc' = [pc EXCEPT ![t] = "bodyid"]
           ELSE /\ pc' = [pc EXCEPT ![t] = "barrier"]
                /\ UNCHANGED <<count, owner, next>>
    /\ UNCHANGED <<args, icv, dyn, sched, mainpc, maxth, nthreads, th_id, out>>

\* #pragma omp for / for (count = 0; count < 6; count++): the thread is
\* given its next iteration (the next of its block under the static
\* schedule, the next unassigned one under the dynamic schedule), or none
\* is left for it and it goes to the barrier that ends the loop
ForNext(t) ==
    /\ mainpc = "region"
    /\ pc[t] = "for"
    /\ LET c == IF sched = "dynamic" THEN next
                ELSE IF count[t] = Undef THEN StaticLo(t, nthreads)
                ELSE count[t] + 1
           hi == IF sched = "dynamic" THEN NumIter ELSE StaticHi(t, nthreads)
       IN  IF c < hi
           THEN /\ count' = SetCount(count, t, c)
                /\ owner' = (c :> t) @@ owner
                /\ next' = IF sched = "dynamic" THEN DynamicAdvance(next) ELSE next
                /\ pc' = [pc EXCEPT ![t] = "bodyid"]
           ELSE /\ pc' = [pc EXCEPT ![t] = "barrier"]
                /\ UNCHANGED <<count, owner, next>>
    /\ UNCHANGED <<args, icv, dyn, sched, mainpc, maxth, nthreads, th_id, out>>

\* th_id = omp_get_thread_num();
BodyGetId(t) ==
    /\ mainpc = "region"
    /\ pc[t] = "bodyid"
    /\ th_id' = SetThId(th_id, t, omp_get_thread_num(t))
    /\ pc' = [pc EXCEPT ![t] = "bodyprint"]
    /\ UNCHANGED <<args, icv, dyn, sched, mainpc, maxth, nthreads, count, next, owner, out>>

\* printf("Hello World from thread %d, %d\n", th_id, count);
BodyPrint(t) ==
    /\ mainpc = "region"
    /\ pc[t] = "bodyprint"
    /\ out' = printf(out, WorkLine(th_id[t], count[t]))
    /\ pc' = [pc EXCEPT ![t] = "for"]
    /\ UNCHANGED <<args, icv, dyn, sched, mainpc, maxth, nthreads, th_id, count, next, owner>>

\* mutant: nowait on the loop, a thread leaves as soon as it has no iteration
BarrierOpen_NoWait == \E u \in Team : pc[u] \in {"barrier", "end"}

\* mutant: the barrier opens only while the whole team stands at it
BarrierOpen_Strict == \A u \in Team : pc[u] = "barrier"

\* the implicit barrier at the end of the loop (no nowait): a thread leaves
\* it once every thread of the team has arrived
BarrierOpen == \A u \in Team : pc[u] \in {"barrier", "end"}

LeaveBarrier(t) ==
    /\ mainpc = "region"
    /\ pc[t] = "barrier"
    /\ BarrierOpen
    /\ pc' = [pc EXCEPT ![t] = "end"]
    /\ UNCHANGED <<args, icv, dyn, sched, mainpc, maxth, nthreads, th_id, count, next, owner, out>>

\* mutant: the invoking thread goes on when its own share is done
JoinReady_MasterOnly == pc[0] \in {"barrier", "end"}

\* the join at the closing brace of the parallel region: the invoking thread
\* goes on when every thread of the team has reached the end of the block;
\* the private th_id and count go out of scope
JoinReady == \A u \in Team : pc[u] = "end"

Join ==
    /\ mainpc = "region"
    /\ JoinReady
    /\ mainpc' = "finish"
    /\ pc' = NoThreads
    /\ th_id' = NoThreads
    /\ count' = NoThreads
    /\ UNCHANGED <<args, icv, dyn, sched, maxth, nthreads, next, owner, out>>

\* mutant: a result is stored in plhs[0] before returning
PrintFinished_SetsOutput ==
    /\ mainpc = "finish"
    /\ out' = printf(out, FinishedLine)
    /\ mainpc' = "done"
    /\ args' = IF args.nlhs >= 1
               THEN [args EXCEPT !.plhs = [args.plhs EXCEPT ![1] = "set"]]
               ELSE args
    /\ UNCHANGED <<icv, dyn, sched, maxth, nthreads, pc, th_id, count, next, owner>>

\* printf("Finished\n");
PrintFinished ==
    /\ mainpc = "finish"
    /\ out' = printf(out, FinishedLine)
    /\ mainpc' = "done"
    /\ UNCHANGED <<args, icv, dyn, sched, maxth, nthreads, pc, th_id, count, next, owner>>

ThreadStep(t) ==
    \/ GetId(t)
    \/ Hello(t)
    \/ ForNext(t)
    \/ BodyGetId(t)
    \/ BodyPrint(t)
    \/ LeaveBarrier(t)

MainStep == QueryMaxThreads \/ PrintMaxThreads \/ Fork \/ Join \/ PrintFinished

TeamStep == \E t \in Team : ThreadStep(t)

Next ==
    \/ QueryMaxThreads
    \/ PrintMaxThreads
    \/ Fork
    \/ TeamStep
    \/ Join
    \/ PrintFinished

Spec == Init /\ [][Next]_vars

\* the thread count forced to a value above the number of iterations,
\* under the schedule of the documented build (gcc -fopenmp: static)
ForcedThreads == NumIter + ForcedExtra

InitForced ==
    /\ args = NoArgs
    /\ icv = ForcedThreads
    /\ dyn = FALSE
    /\ sched = "static"
    /\ InitRest

SpecForced == InitForced /\ [][Next]_vars

\* the least thread count above the number of iterations
LeastForced == NumIter + 1

\* fair scheduling: the invoking thread goes on as long as it can, and so
\* does the team as long as one of its threads can (every step of a thread
\* stays possible until the thread takes it, so this is what fairness to
\* each thread gives)
Fairness == WF_vars(MainStep) /\ WF_vars(TeamStep)

InitLive ==
    /\ args = NoArgs
    /\ \/ icv \in 1 .. LiveThreads /\ dyn = TRUE /\ sched \in {"static", "dynamic"}
       \/ icv = LeastForced /\ dyn = FALSE /\ sched = "static"
    /\ InitRest

FairSpec == InitLive /\ [][Next]_vars /\ Fairness

\* calls with inputs and outputs
InitArgs ==
    /\ args \in Calls(MaxArgs)
    /\ icv \in 1 .. LiveThreads
    /\ dyn = TRUE
    /\ sched \in {"static", "dynamic"}
    /\ InitRest

SpecArgs == InitArgs /\ [][Next]_vars

----
\* Reading standard output.

OutLines == BagToSet(out)

IsId(l) == l.kind = "Hello World from master thread"
IsWork(l) == l.kind = "Hello World from thread"
IsCount(l) == l.kind = "Number of threads"
IsFinished(l) == l.kind = "Finished"

\* how many lines of the output satisfy a test
NumLines(S) == BagCardinality([l \in S |-> out[l]])

\* how many work lines report iteration c
Reports(c) == NumLines({l \in OutLines : IsWork(l) /\ l.count = c})

Emitted(line) == CopiesIn(line, out)

AfterRegion == mainpc \in {"finish", "done"}

----
\* C1: in one invocation every iteration index 0..5 is reported in exactly
\* one work line: never twice, never an index outside 0..5, and once the
\* region is over none is missing; for every team size and every assignment
\* of iterations to threads.
C1_EachIndexOnce ==
    /\ \A l \in OutLines : IsWork(l) => l.count \in Iters
    /\ \A c \in Iters : Reports(c) <= 1
    /\ AfterRegion => \A c \in Iters : Reports(c) = 1

\* the run is over and two threads of a team shared the loop dynamically
C1_Witness ==
    /\ mainpc = "done"
    /\ sched = "dynamic"
    /\ \E a, b \in OutLines : IsWork(a) /\ IsWork(b) /\ a.id # b.id

\* every line the team has to write is on standard output
AllTeamLinesOut ==
    /\ \A t \in Team : Emitted(IdLine(t)) = 1
    /\ \A c \in Iters : Reports(c) = 1

\* C2: "Finished" is written exactly once and is the last line: it is never
\* written while a thread of the team still has its identity line or a work
\* line to write, and nothing is written after it.
C2_FinishedLast ==
    /\ [](Emitted(FinishedLine) = (IF mainpc = "done" THEN 1 ELSE 0))
    /\ [](Emitted(FinishedLine) = 1 => AllTeamLinesOut)
    /\ [][Emitted(FinishedLine) = 1 => out' = out]_vars

\* "Finished" is out after a team of several threads wrote its lines
C2_Witness ==
    /\ Emitted(FinishedLine) = 1
    /\ nthreads >= 2
    /\ NumLines({l \in OutLines : IsWork(l)}) = NumIter

\* C3: under fair scheduling every invocation terminates: the invoking
\* thread leaves the region only when every thread of the team has reached
\* its end, and "Finished" is eventually written, for every team size, those
\* above the number of iterations included.
C3_Terminates ==
    /\ <>(mainpc = "done" /\ Emitted(FinishedLine) = 1)
    /\ [][mainpc = "region" /\ mainpc' # "region" => \A u \in Team : pc[u] = "end"]_vars

\* an invocation with more threads than iterations has ended
C3_Witness ==
    /\ mainpc = "done"
    /\ nthreads > NumIter
    /\ Emitted(FinishedLine) = 1

\* C4: every thread of the team writes its identity line exactly once; the
\* indices in the identity lines are pairwise distinct and are exactly
\* 0..N-1 for a team of N threads.
C4_IdentityOnce ==
    /\ \A l \in OutLines : IsId(l) => l.id \in Team /\ Emitted(l) = 1
    /\ mainpc = "region" =>
          \A t \in Team :
              Emitted(IdLine(t)) = (IF pc[t] \in {"getid", "hello"} THEN 0 ELSE 1)
    /\ AfterRegion =>
          /\ {l.id : l \in {x \in OutLines : IsId(x)}} = Team
          /\ NumLines({l \in OutLines : IsId(l)}) = nthreads

\* a team of several threads has written all its identity lines
C4_Witness ==
    /\ mainpc = "done"
    /\ nthreads >= 2
    /\ \A t \in Team : Emitted(IdLine(t)) = 1

\* C5: with the thread count forced to 1 the identity line and all six work
\* lines carry thread index 0.
C5_SingleThread ==
    icv = 1 =>
        /\ \A l \in OutLines : (IsId(l) \/ IsWork(l)) => l.id = 0
        /\ AfterRegion =>
              /\ Emitted(IdLine(0)) = 1
              /\ \A c \in Iters : Emitted(WorkLine(0, c)) = 1

\* the run with one thread is over
C5_Witness ==
    /\ icv = 1
    /\ mainpc = "done"
    /\ NumLines({l \in OutLines : IsWork(l)}) = NumIter

\* the threads that were given an iteration
Workers == {owner[i] : i \in DOMAIN owner}

\* C6: with the thread count forced to N > 6 each of the six indices is
\* reported exactly once, the thread indices of the work lines lie in
\* 0..N-1, and a thread that is given no iteration writes no work line.
C6_ManyThreads ==
    nthreads > NumIter =>
        /\ \A c \in Iters : Reports(c) <= 1
        /\ AfterRegion => \A c \in Iters : Reports(c) = 1
        /\ \A l \in OutLines : IsWork(l) => l.id \in Team /\ l.id \in Workers
        /\ Cardinality({l.id : l \in {x \in OutLines : IsWork(x)}}) <= nthreads

\* the run of more than six threads is over and one of them wrote no work line
C6_Witness ==
    /\ mainpc = "done"
    /\ nthreads > NumIter
    /\ \E t \in Team : t \notin Workers /\ \A l \in OutLines : IsWork(l) => l.id # t
    /\ \A c \in Iters : Reports(c) = 1

\* C7: the first line written is the one thread-count line, written before
\* the parallel region starts; it reports the positive maximum the runtime
\* returns, and maxth is not changed afterwards.
C7_CountLineFirst ==
    /\ [](out # EmptyBag => Emitted(CountLine(icv)) = 1)
    /\ [](\A l \in OutLines : IsCount(l) => l = CountLine(icv) /\ l.id >= 1)
    /\ [](mainpc \in {"fork", "region", "finish", "done"} =>
              Emitted(CountLine(maxth)) = 1)
    /\ [][maxth # Undef => maxth' = maxth]_vars

\* the region runs, the count line and an identity line are out
C7_Witness ==
    /\ mainpc = "region"
    /\ Emitted(CountLine(maxth)) = 1
    /\ \E l \in OutLines : IsId(l)

\* C8: every thread index of an identity line or a work line is at least 0
\* and below the count reported in the "Number of threads" line.
C8_IndexBelowMax ==
    \A l \in OutLines :
        (IsId(l) \/ IsWork(l)) =>
            /\ l.id >= 0
            /\ \E c \in OutLines : IsCount(c) /\ l.id < c.id

\* a team as large as the reported maximum has written a work line with its
\* highest index
C8_Witness ==
    /\ maxth >= 2
    /\ nthreads = maxth
    /\ \E l \in OutLines : IsWork(l) /\ l.id = maxth - 1

\* C9: the output is 1 thread-count line, N identity lines, at most 6 work
\* lines and 1 completion line, nothing else: at most N + 8 lines.
C9_LineCount ==
    /\ \A l \in OutLines : IsCount(l) \/ IsId(l) \/ IsWork(l) \/ IsFinished(l)
    /\ NumLines({l \in OutLines : IsCount(l)}) <= 1
    /\ NumLines({l \in OutLines : IsId(l)}) <= nthreads
    /\ NumLines({l \in OutLines : IsWork(l)}) <= NumIter
    /\ NumLines({l \in OutLines : IsFinished(l)}) <= 1
    /\ BagCardinality(out) <= nthreads + 8
    /\ mainpc = "done" =>
          /\ NumLines({l \in OutLines : IsCount(l)}) = 1
          /\ NumLines({l \in OutLines : IsId(l)}) = nthreads
          /\ NumLines({l \in OutLines : IsFinished(l)}) = 1

\* the whole output of a team of several threads
C9_Witness ==
    /\ mainpc = "done"
    /\ nthreads >= 2
    /\ BagCardinality(out) = nthreads + 8

\* C10: th_id and the loop index are private: a step of one thread changes
\* no other thread's th_id or count, and the thread index of every work line
\* is the index of the thread that was given that iteration.
C10_PrivateState ==
    /\ [][mainpc = "region" /\ mainpc' = "region" =>
              \A t \in Team :
                  pc'[t] = pc[t] => th_id'[t] = th_id[t] /\ count'[t] = count[t]]_vars
    /\ [](\A l \in OutLines :
              IsWork(l) => l.count \in DOMAIN owner /\ owner[l.count] = l.id)
    /\ [](mainpc = "region" =>
              \A t \in Team : th_id[t] \in {Undef, t})

\* two threads hold their own th_id and a thread other than the master has
\* written a work line
C10_Witness ==
    /\ mainpc = "region"
    /\ \E a, b \in Team : a # b /\ th_id[a] = a /\ th_id[b] = b
    /\ \E l \in OutLines : IsWork(l) /\ l.id >= 1

\* the output of a whole invocation, from the runtime's choices alone
ExpectedOut ==
    SetToBag({CountLine(icv)} \cup {IdLine(t) : t \in Team}
             \cup {WorkLine(owner[c], c) : c \in Iters} \cup {FinishedLine})

\* C11: mexFunction reads none of its inputs and writes none of its outputs:
\* nlhs, plhs, nrhs and prhs are as the host passed them at every step, and
\* the lines written are those the runtime's thread count and assignment of
\* iterations give, whatever the call's arguments.
C11_ArgsUntouched ==
    /\ [][args' = args]_vars
    /\ [](mainpc = "done" => out = ExpectedOut)

\* a call with an input and an output slot has returned, the slot unset
C11_Witness ==
    /\ mainpc = "done"
    /\ args.nlhs >= 1
    /\ args.nrhs >= 1
    /\ args.plhs[1] = "unset"
    /\ nthreads >= 2

\* C12: the lines of different threads are not ordered inside the region: no
\* barrier stands between the identity line and the loop, so a thread that
\* has written its identity line goes on into the loop wherever the other
\* threads are; work lines are then written before other threads' identity
\* lines, and lines appear out of thread-index and iteration-index order.
C12_NoBarrierBeforeLoop ==
    mainpc = "region" =>
        \A t \in Team : pc[t] = "for" => ENABLED ForNext(t)

\* thread 0 has not written its identity line while another thread has
\* written its own and a work line, and iteration 0 is not reported while a
\* later one is
C12_Witness ==
    /\ mainpc = "region"
    /\ nthreads >= 2
    /\ Emitted(IdLine(0)) = 0
    /\ \E a \in Team :
          /\ a # 0
          /\ Emitted(IdLine(a)) = 1
          /\ \E l \in OutLines : IsWork(l) /\ l.id = a /\ l.count > 0
    /\ Reports(0) = 0

\* C13: program order within a thread: the identity line of a thread is
\* written before every work line with that thread's index, so at every
\* point of the output the thread index of each work line has its identity
\* line already written, and a thread inside the loop has written its own.
C13_IdentityBeforeWork ==
    /\ \A l \in OutLines : IsWork(l) => Emitted(IdLine(l.id)) = 1
    /\ mainpc = "region" =>
          \A t \in Team :
              pc[t] \in {"bodyid", "bodyprint"} => Emitted(IdLine(t)) = 1

\* a thread other than the master has written its identity line and then a
\* work line
C13_Witness ==
    /\ mainpc = "region"
    /\ \E l \in OutLines : IsWork(l) /\ l.id >= 1 /\ Emitted(IdLine(l.id)) = 1

\* C14: the loop ends with a barrier: no thread of the team is past the loop
\* before all six iterations are reported, a thread without an iteration
\* included.
C14_LoopBarrier ==
    mainpc = "region" =>
        ((\E t \in Team : pc[t] = "end") => \A c \in Iters : Reports(c) = 1)

\* a thread that was given no iteration is past the loop, after waiting for
\* the others at the barrier
C14_Witness ==
    /\ mainpc = "region"
    /\ \E t \in Team : pc[t] = "end" /\ t \notin Workers
    /\ \A c \in Iters : Reports(c) = 1
====
